---- MODULE Spec2Model ----
(***************************************************************************)
(* Model of GetIUEDataset (src/Mast.py): the decoding of a decompressed    *)
(* IUE preview record into the three sequences wav, flux, flux_std_dev.    *)
(*                                                                         *)
(* Text is a sequence of one-character strings.  A float is held as an     *)
(* integer number of tenths (the records enumerated below carry at most    *)
(* one fractional digit), so -1 is held as -10; binary rounding of the     *)
(* floating-point arithmetic is not modelled.                              *)
(***************************************************************************)
EXTENDS Integers, Sequences, FiniteSets, TLC

(***************************************************************************)
(* Characters and the Python string operations the decoder uses.           *)
(***************************************************************************)
NL == "\n"
SP == " "

Digits == {"0", "1", "2", "3", "4", "5", "6", "7", "8", "9"}

DigitVal(c) ==
    CASE c = "0" -> 0 [] c = "1" -> 1 [] c = "2" -> 2 [] c = "3" -> 3
      [] c = "4" -> 4 [] c = "5" -> 5 [] c = "6" -> 6 [] c = "7" -> 7
      [] c = "8" -> 8 [] c = "9" -> 9

IsSpaceChar(c) == c \in {SP, NL}

Has(s, c) == \E p \in 1..Len(s) : s[p] = c

FirstPos(s, c) == CHOOSE p \in 1..Len(s) : s[p] = c /\ \A q \in 1..(p-1) : s[q] # c

\* str.split(c) for a one-character separator: always at least one piece.
RECURSIVE Split(_, _)
Split(s, c) ==
    IF ~Has(s, c) THEN <<s>>
    ELSE LET p == FirstPos(s, c)
         IN  <<SubSeq(s, 1, p-1)>> \o Split(SubSeq(s, p+1, Len(s)), c)

\* c.join(parts)
RECURSIVE Join(_, _)
Join(parts, c) ==
    IF Len(parts) = 0 THEN <<>>
    ELSE IF Len(parts) = 1 THEN parts[1]
    ELSE parts[1] \o <<c>> \o Join(Tail(parts), c)

\* str.strip(): whitespace removed at both ends.
RECURSIVE LStrip(_)
LStrip(s) == IF Len(s) > 0 /\ IsSpaceChar(s[1]) THEN LStrip(Tail(s)) ELSE s

RECURSIVE RStrip(_)
RStrip(s) ==
    IF Len(s) > 0 /\ IsSpaceChar(s[Len(s)]) THEN RStrip(SubSeq(s, 1, Len(s)-1)) ELSE s

Strip(s) == RStrip(LStrip(s))

\* filter(None, parts): the empty strings are discarded.
FilterNone(parts) == SelectSeq(parts, LAMBDA t : t # <<>>)

Last(s) == s[Len(s)]

AllDigits(s) == \A p \in 1..Len(s) : s[p] \in Digits

RECURSIVE DecVal(_)
DecVal(s) == IF Len(s) = 0 THEN 0 ELSE 10 * DecVal(SubSeq(s, 1, Len(s)-1)) + DigitVal(Last(s))

Unsigned(t) == IF Len(t) > 0 /\ t[1] \in {"+", "-"} THEN Tail(t) ELSE t
Sign(t) == IF Len(t) > 0 /\ t[1] = "-" THEN -1 ELSE 1

\* int(s): surrounding whitespace, an optional sign, one or more digits.
IsInt(s) == LET u == Unsigned(Strip(s)) IN Len(u) > 0 /\ AllDigits(u)
IntVal(s) == LET t == Strip(s) IN Sign(t) * DecVal(Unsigned(t))

\* float(s): surrounding whitespace, an optional sign, digits with an
\* optional point (at least one digit in all).  The value is in tenths.
IsFloat(s) ==
    LET u == Unsigned(Strip(s))
        parts == Split(u, ".")
    IN  /\ Len(parts) \in {1, 2}
        /\ \A k \in 1..Len(parts) : AllDigits(parts[k])
        /\ \E k \in 1..Len(parts) : Len(parts[k]) > 0

FloatVal(s) ==
    LET t == Strip(s)
        parts == Split(Unsigned(t), ".")
        frac == IF Len(parts) = 2 /\ Len(parts[2]) > 0 THEN DigitVal(parts[2][1]) ELSE 0
    IN  Sign(t) * (10 * DecVal(parts[1]) + frac)


(***************************************************************************)
(* The records decoded.  A record is the decompressed payload: header      *)
(* lines, line 18, body lines and a last line, joined by newlines.         *)
(***************************************************************************)
MaxBody == 3

MarkerLine == 18
LowHeaderLen == 18
HighHeaderLen == 19

\* "1 2 3"
B1 == <<"1", " ", "2", " ", "3">>
\* "-1 2 3"
B2 == <<"-", "1", " ", "2", " ", "3">>
\* "3 -1.0  5 x"
B3 == <<"3", " ", "-", "1", ".", "0", " ", " ", "5", " ", "x">>
\* "1 2"
B4 == <<"1", " ", "2">>
\* "-1.0 0 x"
B5 == <<"-", "1", ".", "0", " ", "0", " ", "x">>

BodyLines == {B1, B2, B3, B4, B5}

\* "w+4,=2*,1"
H1 == <<"w", "+", "4", ",", "=", "2", "*", ",", "1">>
\* "w+4.5,= 2 *, 2"
H2 == <<"w", "+", "4", ".", "5", ",", "=", " ", "2", " ", "*", ",", " ", "2">>
\* "w"
H3 == <<"w">>
\* "w+4,=2*,-3"
H4 == <<"w", "+", "4", ",", "=", "2", "*", ",", "-", "3">>
\* "4  -1 5 x"
L3 == <<"4", " ", " ", "-", "1", " ", "5", " ", "x">>

Line18Choices == {H1, H2, H3, H4, B1, <<>>, L3}

\* The header lines 0..17 and the last line of a record, before stripping.
Frames ==
    { [hdr |-> <<>>, term |-> <<>>],
      [hdr |-> <<" ", "w">>, term |-> <<"9", " ", "9", " ", "9", " ">>] }

ShortLens == {1, MarkerLine}

SeqsUpTo(S, n) == UNION { [1..k -> S] : k \in 0..n }

Segments ==
    { [k \in 1..MarkerLine |-> f.hdr] \o <<l>> \o b \o <<f.term>> :
        f \in Frames, l \in Line18Choices, b \in SeqsUpTo(BodyLines, MaxBody) }
    \cup { [k \in 1..MarkerLine |-> f.hdr] \o <<l>> : f \in Frames, l \in Line18Choices }
    \cup { [k \in 1..n |-> f.hdr] : f \in Frames, n \in ShortLens }

Texts == { Join(segs, NL) : segs \in Segments }

\* The datasets asked for: "SWP123", "LWr4", "swp", "LW", and their tiers.
N1 == <<"S", "W", "P", "1", "2", "3">>
N2 == <<"L", "W", "r", "4">>
N3 == <<"s", "w", "p">>
N4 == <<"L", "W">>

Requests == [name : {N1, N2, N3, N4}, tier : {"SMALL", "LARGE", "small"}]

DefaultRequest == [name |-> N1, tier |-> "LARGE"]

\* The archive answers with a gzip stream, with other bytes, or not at all.
Streams == {"gzip", "garbage", "unreachable"}

FetchTexts ==
    { Join([k \in 1..MarkerLine |-> <<>>] \o <<H1, B1, B2, <<>>>>, NL),
      Join([k \in 1..MarkerLine |-> <<>>] \o <<L3, B1, <<>>>>, NL) }

(***************************************************************************)
(* State: the locals of GetIUEDataset, the position in it and its outcome. *)
(***************************************************************************)
VARIABLES
    dataset,        \* the argument: its name (dataset[0]) and tier (dataset[7])
    stream,         \* what the archive holds at the URL
    dataset_url,    \* the local dataset_url
    text,           \* the decompressed payload
    lines,          \* the list built at line 166, as first bound to data
    data,           \* the local data, rebound at 181/187 or 202/207
    header,         \* the local header
    layout,         \* the branch taken at line 168
    wav, flux, flux_std_dev,
    wave_start, wave_delta, k_max,
    i, ln,          \* the compaction loop's index and length
    iter,           \* iterations of the compaction loop begun so far
    pc,             \* position in the function
    outcome,        \* "none", "returned", or the exception raised
    run,            \* which decode of the same lines this is
    first           \* what the first decode ended with

vars == <<dataset, stream, dataset_url, text, lines, data, header, layout, wav, flux, flux_std_dev,
          wave_start, wave_delta, k_max, i, ln, iter, pc, outcome, run, first>>

request == <<dataset, stream, dataset_url>>

locals == <<data, header, layout, wav, flux, flux_std_dev,
            wave_start, wave_delta, k_max, i, ln, iter>>

Init ==
    /\ \/ /\ dataset = DefaultRequest
          /\ stream = "gzip"
          /\ text \in Texts
       \/ /\ dataset \in Requests
          /\ stream \in Streams
          /\ text \in IF stream = "gzip" THEN FetchTexts ELSE {<<>>}
    /\ dataset_url = <<>>
    /\ lines = <<>>
    /\ data = <<>>
    /\ header = <<>>
    /\ layout = "none"
    /\ wav = <<>> /\ flux = <<>> /\ flux_std_dev = <<>>
    /\ wave_start = 0 /\ wave_delta = 0 /\ k_max = 0
    /\ i = 0 /\ ln = 0 /\ iter = 0
    /\ pc = "url"
    /\ outcome = "none"
    /\ run = 1
    /\ first = [outcome |-> "none", wav |-> <<>>, flux |-> <<>>, flux_std_dev |-> <<>>]

Raise(exc) ==
    /\ pc' = "done"
    /\ outcome' = exc

\* str.lower() on one character and on a string.
UpperCase == <<"A", "B", "C", "D", "E", "F", "G", "H", "I", "J", "K", "L", "M",
               "N", "O", "P", "Q", "R", "S", "T", "U", "V", "W", "X", "Y", "Z">>
LowerCase == <<"a", "b", "c", "d", "e", "f", "g", "h", "i", "j", "k", "l", "m",
               "n", "o", "p", "q", "r", "s", "t", "u", "v", "w", "x", "y", "z">>

Lower(c) ==
    IF \E k \in 1..Len(UpperCase) : UpperCase[k] = c
      THEN LowerCase[CHOOSE k \in 1..Len(UpperCase) : UpperCase[k] = c]
      ELSE c

LowerStr(s) == [k \in 1..Len(s) |-> Lower(s[k])]

\* s[0:n] and s[n:] on a string.
Prefix(s, n) == SubSeq(s, 1, IF n < Len(s) THEN n ELSE Len(s))
Suffix(s, n) == SubSeq(s, n + 1, Len(s))

\* line 157: the fixed head of the URL, held as one piece.
BaseUrl == "http://archive.stsci.edu/missions/iue/previews/mx/"

\* lines 158-159: 's' is appended for the tier SMALL.
MarkerAnyCase(tier) == IF tier \in {"SMALL", "small"} THEN <<"s">> ELSE <<>>

Marker(tier) == IF tier = "SMALL" THEN <<"s">> ELSE <<>>

\* lines 155-160
UrlOf(name, tier) ==
    LET pref == Prefix(name, 3)
        num == Suffix(name, 3)
    IN  <<BaseUrl>> \o LowerStr(pref) \o <<"/">> \o Prefix(num, 2)
          \o <<"0", "0", "0", "/", "g", "z", "/">>
          \o <<Lower(pref[1]), Lower(pref[3])>> \o num
          \o Marker(tier) \o <<".", "g", "z">>

\* lines 154-160: pref[0] and pref[2] raise on a name of fewer than 3 characters.
BuildUrl ==
    /\ pc = "url"
    /\ IF Len(Prefix(dataset.name, 3)) < 3
         THEN /\ Raise("IndexError")
              /\ UNCHANGED dataset_url
         ELSE /\ dataset_url' = UrlOf(dataset.name, dataset.tier)
              /\ pc' = "open"
              /\ UNCHANGED outcome
    /\ UNCHANGED <<dataset, stream, text, lines, locals, run, first>>

\* line 165: urlopen raises URLError when the retrieval fails.
OpenUrl ==
    /\ pc = "open"
    /\ IF stream = "unreachable"
         THEN Raise("URLError")
         ELSE pc' = "read" /\ UNCHANGED outcome
    /\ UNCHANGED <<request, text, lines, locals, run, first>>

\* Only the trailing whitespace of every piece is removed.
StripAllTrailing(segs) == [k \in 1..Len(segs) |-> RStrip(segs[k])]

\* line 166: split on newlines, strip every piece.
StripAll(segs) == [k \in 1..Len(segs) |-> Strip(segs[k])]

\* line 166: GzipFile.read() raises IOError on a stream that is not gzip.
ReadLines ==
    /\ pc = "read"
    /\ IF stream # "gzip"
         THEN /\ Raise("IOError")
              /\ UNCHANGED <<lines, data>>
         ELSE /\ lines' = StripAll(Split(text, NL))
              /\ data' = lines'
              /\ pc' = "classify"
              /\ UNCHANGED outcome
    /\ UNCHANGED <<request, text, header, layout, wav, flux, flux_std_dev,
                   wave_start, wave_delta, k_max, i, ln, iter, run, first>>

\* line 168: data[18][0] raises when line 18, or its first character, is absent.
MarkerMissing(d) == Len(d) < MarkerLine + 1 \/ Len(d[MarkerLine + 1]) = 0

LayoutOf(d) == IF d[MarkerLine + 1][1] # "w" THEN "Low" ELSE "High"

Classify ==
    /\ pc = "classify"
    /\ IF MarkerMissing(data)
         THEN /\ Raise("IndexError")
              /\ UNCHANGED layout
         ELSE /\ layout' = LayoutOf(data)
              /\ pc' = "slice"
              /\ UNCHANGED outcome
    /\ UNCHANGED <<request, text, lines, data, header, wav, flux, flux_std_dev,
                   wave_start, wave_delta, k_max, i, ln, iter, run, first>>

\* d[0:n] and d[n:-1] on a list d.
Head0(d, n) == SubSeq(d, 1, IF n < Len(d) THEN n ELSE Len(d))

\* d[n:], the last line kept
BodyKeepLast(d, n) == SubSeq(d, n + 1, Len(d))

BodyFrom(d, n) == SubSeq(d, n + 1, Len(d) - 1)

HeaderLen(lay) == IF lay = "Low" THEN LowHeaderLen ELSE HighHeaderLen

\* The header is cut off the input list itself instead of a copy.
SliceInPlace ==
    /\ pc = "slice"
    /\ header' = Head0(data, HeaderLen(layout))
    /\ lines' = BodyFrom(data, HeaderLen(layout))
    /\ data' = lines'
    /\ pc' = "filter"
    /\ UNCHANGED <<request, text, layout, wav, flux, flux_std_dev,
                   wave_start, wave_delta, k_max, i, ln, iter, outcome, run, first>>

\* lines 180-181 and 201-202: header and data are rebound to new lists.
Slice ==
    /\ pc = "slice"
    /\ header' = Head0(data, HeaderLen(layout))
    /\ data' = BodyFrom(data, HeaderLen(layout))
    /\ pc' = "filter"
    /\ UNCHANGED <<request, text, lines, layout, wav, flux, flux_std_dev,
                   wave_start, wave_delta, k_max, i, ln, iter, outcome, run, first>>

\* lines 185-186 and 205-206: ' '.join(filter(None, line.split(' ')))
Squeeze(line) == Join(FilterNone(Split(line, SP)), SP)

FilterSpaces ==
    /\ pc = "filter"
    /\ data' = [k \in 1..Len(data) |-> Squeeze(data[k])]
    /\ pc' = "cols"
    /\ UNCHANGED <<request, text, lines, header, layout, wav, flux, flux_std_dev,
                   wave_start, wave_delta, k_max, i, ln, iter, outcome, run, first>>

\* lines 188 and 208: float(x.split(' ')[c]) for c in (0,1,2), column by column.
Columns == {1, 2, 3}

CellStatus(x, c) ==
    LET toks == Split(x, SP)
    IN  IF Len(toks) < c THEN "IndexError"
        ELSE IF ~IsFloat(toks[c]) THEN "ValueError"
        ELSE "ok"

CellVal(x, c) == FloatVal(Split(x, SP)[c])

BadCells(d) == { p \in Columns \X (1..Len(d)) : CellStatus(d[p[2]], p[1]) # "ok" }

FirstBadCell(d) ==
    CHOOSE p \in BadCells(d) :
        \A q \in BadCells(d) : p[1] < q[1] \/ (p[1] = q[1] /\ p[2] <= q[2])

DataCol(d, c) == [k \in 1..Len(d) |-> CellVal(d[k], c)]

\* lines 189-191 and 209-210: which column each sequence is taken from.
WavCol == 1
FluxColFirst(lay) == 1
FluxCol(lay) == IF lay = "Low" THEN 2 ELSE 1
StdCol(lay) == IF lay = "Low" THEN 3 ELSE 2

ParseCols ==
    /\ pc = "cols"
    /\ IF BadCells(data) # {}
         THEN /\ LET p == FirstBadCell(data) IN Raise(CellStatus(data[p[2]], p[1]))
              /\ UNCHANGED <<wav, flux, flux_std_dev>>
         ELSE /\ flux' = DataCol(data, FluxCol(layout))
              /\ flux_std_dev' = DataCol(data, StdCol(layout))
              /\ wav' = IF layout = "Low" THEN DataCol(data, WavCol) ELSE wav
              /\ pc' = IF layout = "Low" THEN "return" ELSE "wave"
              /\ UNCHANGED outcome
    /\ UNCHANGED <<request, text, lines, data, header, layout,
                   wave_start, wave_delta, k_max, i, ln, iter, run, first>>


\* lines 212-215: the three fields of the last header line.
StartText(ws) == Split(Split(ws, "+")[2], ",")[1]
DeltaText(ws) == Strip(Last(Split(Split(ws, "*")[1], "=")))
KmaxText(ws) == Strip(Last(Split(ws, ",")))

WaveStatus(ws) ==
    IF Len(Split(ws, "+")) < 2 THEN "IndexError"
    ELSE IF ~IsFloat(StartText(ws)) THEN "ValueError"
    ELSE IF ~IsFloat(DeltaText(ws)) THEN "ValueError"
    ELSE IF ~IsInt(KmaxText(ws)) THEN "ValueError"
    ELSE "ok"

\* line 216: [wave_delta*i + wave_start for i in range(0,k_max)]
WavAxisShifted(start, delta, kmax) ==
    [k \in 1..(IF kmax > 0 THEN kmax ELSE 0) |-> delta * k + start]

\* range(0, k_max) taken with the header's k_max, not k_max + 1
WavAxisExclusive(start, delta, kmax) ==
    [k \in 1..(IF kmax > 1 THEN kmax - 1 ELSE 0) |-> delta * (k - 1) + start]

WavAxis(start, delta, kmax) ==
    [k \in 1..(IF kmax > 0 THEN kmax ELSE 0) |-> delta * (k - 1) + start]

ParseWave ==
    /\ pc = "wave"
    /\ LET ws == Last(header)
       IN  IF WaveStatus(ws) # "ok"
             THEN /\ Raise(WaveStatus(ws))
                  /\ UNCHANGED <<wav, wave_start, wave_delta, k_max>>
             ELSE /\ wave_start' = FloatVal(StartText(ws))
                  /\ wave_delta' = FloatVal(DeltaText(ws))
                  /\ k_max' = IntVal(KmaxText(ws)) + 1
                  /\ wav' = WavAxis(wave_start', wave_delta', k_max')
                  /\ pc' = "loopinit"
                  /\ UNCHANGED outcome
    /\ UNCHANGED <<request, text, lines, data, header, layout, flux, flux_std_dev,
                   i, ln, iter, run, first>>

\* lines 219-220
LoopInit ==
    /\ pc = "loopinit"
    /\ ln' = Len(flux)
    /\ i' = 0
    /\ iter' = 0
    /\ pc' = "loop"
    /\ UNCHANGED <<request, text, lines, data, header, layout, wav, flux, flux_std_dev,
                   wave_start, wave_delta, k_max, outcome, run, first>>

\* The flux value line 222 compares with: float -1.
BadValue == FloatVal(<<"-", "1">>)

\* del s[n] for a 0-based n inside s.
DelAt(s, n) == SubSeq(s, 1, n) \o SubSeq(s, n + 2, Len(s))

\* lines 226 and 228: i -= 1 after a deletion, then i += 1.
IndexAfterDeleteNoStepBack(n) == n + 1

IndexAfterDelete(n) == (n - 1) + 1

\* lines 221-228: one iteration of the while loop.
LoopStep ==
    /\ pc = "loop"
    /\ i < ln
    /\ iter' = iter + 1
    /\ IF i >= Len(flux)
         THEN \* flux[i] is out of range
              /\ Raise("IndexError")
              /\ UNCHANGED <<wav, flux, flux_std_dev, i, ln>>
         ELSE IF flux[i + 1] # BadValue
         THEN /\ i' = i + 1
              /\ pc' = "loop"
              /\ UNCHANGED <<wav, flux, flux_std_dev, ln, outcome>>
         ELSE /\ flux' = DelAt(flux, i)
              /\ IF i >= Len(flux_std_dev)
                   THEN /\ Raise("IndexError")
                        /\ UNCHANGED <<wav, flux_std_dev, i, ln>>
                   ELSE /\ flux_std_dev' = DelAt(flux_std_dev, i)
                        /\ IF i >= Len(wav)
                             THEN /\ Raise("IndexError")
                                  /\ UNCHANGED <<wav, i, ln>>
                             ELSE /\ wav' = DelAt(wav, i)
                                  /\ i' = IndexAfterDelete(i)
                                  /\ ln' = ln - 1
                                  /\ pc' = "loop"
                                  /\ UNCHANGED outcome
    /\ UNCHANGED <<request, text, lines, data, header, layout,
                   wave_start, wave_delta, k_max, run, first>>

\* line 221: the loop condition fails.
LoopExit ==
    /\ pc = "loop"
    /\ ~(i < ln)
    /\ pc' = "return"
    /\ UNCHANGED <<request, text, lines, locals, outcome, run, first>>

\* line 230
Return ==
    /\ pc = "return"
    /\ pc' = "done"
    /\ outcome' = "returned"
    /\ UNCHANGED <<request, text, lines, locals, run, first>>

Result == [outcome |-> outcome, wav |-> wav, flux |-> flux, flux_std_dev |-> flux_std_dev]

\* The same lines, once read, are decoded a second time, with fresh locals.
Repeat ==
    /\ pc = "done"
    /\ run = 1
    /\ Len(lines) > 0
    /\ run' = 2
    /\ first' = Result
    /\ data' = lines
    /\ header' = <<>>
    /\ layout' = "none"
    /\ wav' = <<>> /\ flux' = <<>> /\ flux_std_dev' = <<>>
    /\ wave_start' = 0 /\ wave_delta' = 0 /\ k_max' = 0
    /\ i' = 0 /\ ln' = 0 /\ iter' = 0
    /\ pc' = "classify"
    /\ outcome' = "none"
    /\ UNCHANGED <<request, text, lines>>

Next ==
    \/ BuildUrl
    \/ OpenUrl
    \/ ReadLines
    \/ Classify
    \/ Slice
    \/ FilterSpaces
    \/ ParseCols
    \/ ParseWave
    \/ LoopInit
    \/ LoopStep
    \/ LoopExit
    \/ Return
    \/ Repeat

Spec == Init /\ [][Next]_vars


(***************************************************************************)
(* What the record says, read off the input lines directly: the tokens of  *)
(* a line are its maximal runs of non-space characters.                    *)
(***************************************************************************)
RECURSIVE Tokens(_)
Tokens(s) ==
    IF Len(s) = 0 THEN <<>>
    ELSE IF s[1] = SP THEN Tokens(Tail(s))
    ELSE LET n == CHOOSE m \in 1..Len(s) :
                     /\ \A q \in 1..m : s[q] # SP
                     /\ (m = Len(s) \/ s[m + 1] = SP)
         IN  <<SubSeq(s, 1, n)>> \o Tokens(SubSeq(s, n + 1, Len(s)))

\* Token c (from 1) of input line number n (from 0), as a number.
TokenVal(n, c) == FloatVal(Tokens(lines[n + 1])[c])

NumericTokens(n, c) ==
    /\ Len(Tokens(lines[n + 1])) >= c
    /\ \A k \in 1..c : IsFloat(Tokens(lines[n + 1])[k])

Min(a, b) == IF a < b THEN a ELSE b

Done == pc = "done"
Returned == pc = "done" /\ outcome = "returned"

\* Number of body lines of a HighDispersion record: lines 19 .. L-2.
HighBodyCount == IF Len(lines) > HighHeaderLen THEN Len(lines) - HighHeaderLen - 1 ELSE 0

\* Flux and uncertainty of HighDispersion body line j (from 1).
SrcFlux(j) == TokenVal(HighHeaderLen + j - 1, 1)
SrcStd(j) == TokenVal(HighHeaderLen + j - 1, 2)

\* The body indices (from 1) whose flux is not the bad value, in order.
KeptIndices == SelectSeq([j \in 1..HighBodyCount |-> j], LAMBDA j : SrcFlux(j) # BadValue)

\* The header of the input marks a HighDispersion record whose fields parse.
HighInput ==
    /\ Len(lines) > MarkerLine
    /\ Len(lines[MarkerLine + 1]) > 0
    /\ lines[MarkerLine + 1][1] = "w"
WellFormedHighHeader == HighInput /\ WaveStatus(lines[MarkerLine + 1]) = "ok"

\* C1: every decode that returns, returns wav, flux and flux_std_dev of the
\* same length, whatever k_max in the header and the number of body lines are.
C1_EqualLengths ==
    Returned => Len(wav) = Len(flux) /\ Len(flux) = Len(flux_std_dev)

C3_Compaction ==
    (Returned /\ layout = "High" /\ k_max = HighBodyCount) =>
        /\ Len(flux) = Len(KeptIndices)
        /\ Len(flux_std_dev) = Len(KeptIndices)
        /\ Len(wav) = Len(KeptIndices)
        /\ \A p \in 1..Len(KeptIndices) :
              /\ flux[p] = SrcFlux(KeptIndices[p])
              /\ flux_std_dev[p] = SrcStd(KeptIndices[p])
              /\ wav[p] = wave_start + (KeptIndices[p] - 1) * wave_delta

\* Two adjacent bad values, the first at index 0, before a kept sample.
C3_Witness ==
    /\ Returned /\ layout = "High" /\ k_max = HighBodyCount
    /\ HighBodyCount >= 3
    /\ SrcFlux(1) = BadValue /\ SrcFlux(2) = BadValue /\ SrcFlux(3) # BadValue
    /\ Len(flux) = 1

\* C4: in every HighDispersion decode that returns, wav is the progression
\* start + j*delta, j = 0 .. k_max, without the indices whose flux is -1, so
\* the wavelength returned beside a kept sample is the one of its body index.
C4_WavProgression ==
    (Returned /\ layout = "High") =>
        LET keptW == SelectSeq([j \in 1..k_max |-> j],
                               LAMBDA j : ~(j <= HighBodyCount /\ SrcFlux(j) = BadValue))
        IN  /\ lines[MarkerLine + 1] = H1 => wave_start = 40 /\ wave_delta = 20
            /\ lines[MarkerLine + 1] = H2 => wave_start = 45 /\ wave_delta = 20
            /\ Len(wav) = Len(keptW)
            /\ \A p \in 1..Len(keptW) : wav[p] = wave_start + (keptW[p] - 1) * wave_delta
            /\ \A p \in 1..Min(Len(wav), Len(flux)) : keptW[p] = KeptIndices[p]

C4_Witness ==
    /\ Returned /\ layout = "High"
    /\ Len(flux) >= 1 /\ Len(flux) < HighBodyCount
    /\ Len(wav) >= 2
    /\ wav[1] # wave_start

\* C5: a HighDispersion record whose body lines carry two numeric tokens
\* decodes, whether or not a third token follows and whatever it is.
C5_TwoTokensDecode ==
    ( /\ Done
      /\ WellFormedHighHeader
      /\ HighBodyCount <= IntVal(KmaxText(lines[MarkerLine + 1])) + 1
      /\ \A j \in 1..HighBodyCount : NumericTokens(HighHeaderLen + j - 1, 2) )
    => /\ outcome = "returned"
       /\ \A p \in 1..Len(KeptIndices) :
             /\ flux[p] = SrcFlux(KeptIndices[p])
             /\ flux_std_dev[p] = SrcStd(KeptIndices[p])

\* C6: a record of fewer than 19 lines ends the decode with
\* MalformedRecordError, never with an index fault.
C6_ShortRecordMalformed ==
    (Done /\ Len(lines) > 0 /\ Len(lines) < MarkerLine + 1) =>
        outcome = "MalformedRecordError"

\* C7: a HighDispersion record all of whose body lines have flux -1 decodes,
\* without error, to three empty sequences.
C7_AllSentinelEmpty ==
    ( /\ Done
      /\ WellFormedHighHeader
      /\ HighBodyCount >= 1
      /\ \A j \in 1..HighBodyCount :
            /\ NumericTokens(HighHeaderLen + j - 1, 3)
            /\ SrcFlux(j) = BadValue )
    => /\ outcome = "returned"
       /\ wav = <<>> /\ flux = <<>> /\ flux_std_dev = <<>>

\* C8: once a record of at least 19 lines is classified, its layout is
\* HighDispersion if line 18 starts with 'w' and LowDispersion for any other
\* line 18, the empty line included.
C8_LayoutByMarker ==
    (Len(lines) >= MarkerLine + 1 /\ pc \notin {"read", "classify"}) =>
        layout = IF Len(lines[MarkerLine + 1]) > 0 /\ lines[MarkerLine + 1][1] = "w"
                   THEN "High" ELSE "Low"

\* C9: a LowDispersion decode of L >= 19 lines that returns, returns L-19
\* samples, sample i being tokens 0, 1, 2 of line 18+i; lines 0..17, the last
\* line, runs of spaces and tokens after the third do not matter.
C9_LowSamples ==
    (Returned /\ layout = "Low") =>
        LET n == Len(lines) - MarkerLine - 1
        IN  /\ Len(wav) = n /\ Len(flux) = n /\ Len(flux_std_dev) = n
            /\ \A k \in 1..n :
                  /\ wav[k] = TokenVal(MarkerLine + k - 1, 1)
                  /\ flux[k] = TokenVal(MarkerLine + k - 1, 2)
                  /\ flux_std_dev[k] = TokenVal(MarkerLine + k - 1, 3)

\* Line 18 is "4  -1 5 x": two spaces in a row and a fourth token.
C9_Witness ==
    /\ Returned /\ layout = "Low"
    /\ lines[MarkerLine + 1] = L3
    /\ Len(lines) >= MarkerLine + 3
    /\ Last(lines) # <<>>
    /\ lines[1] # <<>>
    /\ wav[1] = 40 /\ flux[1] = -10 /\ flux_std_dev[1] = 50

ParseFailure ==
    /\ ~MarkerMissing(lines)
    /\ \/ \E n \in HeaderLen(LayoutOf(lines))..(Len(lines) - 2) : \E c \in Columns :
             /\ Len(Tokens(lines[n + 1])) >= c
             /\ ~IsFloat(Tokens(lines[n + 1])[c])
       \/ HighInput /\ WaveStatus(lines[MarkerLine + 1]) # "ok"

\* C11: a decode that meets a non-numeric token, or a header field that does
\* not parse, ends in MalformedRecordError (with the line index and its
\* text) and returns no table.
C11_ParseFailureMalformed ==
    (Done /\ Len(lines) > 0 /\ ParseFailure) => outcome = "MalformedRecordError"

\* C12: the URL built is base + lower(pref) + '/' + num[0:2] + '000/gz/' +
\* lower(pref[0]) + lower(pref[2]) + num + marker + '.gz', with pref the first
\* 3 characters of the name, num the rest, and marker 's' exactly for the tier
\* SMALL; stated position by position.
C12_StoragePath ==
    (pc \notin {"url"} /\ dataset_url # <<>>) =>
        LET name == dataset.name
            u == dataset_url
            n == Len(name) - 3
            b == Min(2, n)
            m == IF dataset.tier = "SMALL" THEN 1 ELSE 0
        IN  /\ Len(u) = 17 + b + n + m
            /\ u[1] = BaseUrl
            /\ \A k \in 1..3 : u[1 + k] = Lower(name[k])
            /\ u[5] = "/"
            /\ \A k \in 1..b : u[5 + k] = name[3 + k]
            /\ SubSeq(u, 6 + b, 12 + b) = <<"0", "0", "0", "/", "g", "z", "/">>
            /\ u[13 + b] = Lower(name[1])
            /\ u[14 + b] = Lower(name[3])
            /\ \A k \in 1..n : u[14 + b + k] = name[3 + k]
            /\ m = 1 => u[15 + b + n] = "s"
            /\ SubSeq(u, Len(u) - 2, Len(u)) = <<".", "g", "z">>
            /\ (name = N1 /\ dataset.tier = "SMALL") =>
                  u = <<BaseUrl, "s", "w", "p", "/", "1", "2", "0", "0", "0", "/",
                        "g", "z", "/", "s", "p", "1", "2", "3", "s", ".", "g", "z">>
            /\ (name = N2 /\ dataset.tier = "small") =>
                  u = <<BaseUrl, "l", "w", "r", "/", "4", "0", "0", "0", "/",
                        "g", "z", "/", "l", "r", "4", ".", "g", "z">>

\* A one-digit number (num[0:2] is short) with the tier SMALL.
C12_Witness ==
    /\ pc = "open"
    /\ dataset.name = N2 /\ dataset.tier = "SMALL"
    /\ Len(dataset_url) = 20

\* C13: once the URL is built, a retrieval that fails ends the call in
\* TransportError and a stream that is not gzip ends it in
\* DecompressionError; in both cases nothing is classified, decoded or
\* returned.
C13_FetchFailureTaxonomy ==
    (Done /\ dataset_url # <<>> /\ stream # "gzip") =>
        /\ outcome = IF stream = "unreachable" THEN "TransportError"
                                               ELSE "DecompressionError"
        /\ lines = <<>> /\ layout = "none"
        /\ wav = <<>> /\ flux = <<>> /\ flux_std_dev = <<>>

\* The newline-delimited pieces of the payload, read off the positions of its
\* newline characters.
NewlinePositions == { p \in 1..Len(text) : text[p] = NL }

\* Position of the k-th newline; 0 before the first piece, Len+1 after the last.
NewlinePos(k) ==
    IF k = 0 THEN 0
    ELSE IF k > Cardinality(NewlinePositions) THEN Len(text) + 1
    ELSE CHOOSE p \in NewlinePositions :
            Cardinality({ q \in NewlinePositions : q < p }) = k - 1

Segment(k) == SubSeq(text, NewlinePos(k - 1) + 1, NewlinePos(k) - 1)

NonSpace(s) == { p \in 1..Len(s) : s[p] # SP }
MinOf(S) == CHOOSE p \in S : \A q \in S : p <= q
MaxOf(S) == CHOOSE p \in S : \A q \in S : p >= q

\* s without its trailing spaces; s without its leading and trailing spaces.
TrimRight(s) == IF NonSpace(s) = {} THEN <<>> ELSE SubSeq(s, 1, MaxOf(NonSpace(s)))
TrimBoth(s) ==
    IF NonSpace(s) = {} THEN <<>> ELSE SubSeq(s, MinOf(NonSpace(s)), MaxOf(NonSpace(s)))

\* C14 (as stated): a payload with m newlines gives m+1 lines, in order, each
\* its piece with only the trailing whitespace removed.
C14_TrailingOnly ==
    (pc = "classify" /\ run = 1) =>
        /\ Len(lines) = Cardinality(NewlinePositions) + 1
        /\ \A k \in 1..Len(lines) : lines[k] = TrimRight(Segment(k))

\* C14 (amended): a payload with m newlines gives m+1 lines, in order, each
\* its piece with the leading and the trailing whitespace removed.
C14_SplitStripBoth ==
    (pc = "classify" /\ run = 1) =>
        /\ Len(lines) = Cardinality(NewlinePositions) + 1
        /\ \A k \in 1..Len(lines) : lines[k] = TrimBoth(Segment(k))

\* Pieces with a leading space (" w") and with a trailing one ("9 9 9 ").
C14_Witness ==
    /\ pc = "classify" /\ run = 1
    /\ Len(lines) > MarkerLine + 2
    /\ Segment(1) = <<" ", "w">> /\ lines[1] = <<"w">>
    /\ Last(Segment(Len(lines))) = SP /\ Last(Last(lines)) = "9"

\* C15: the compaction loop keeps 0 <= i <= ln = len(flux) = len(flux_std_dev),
\* every iteration lowers ln - i by one and the loop can always step or exit
\* (so it ends: ln - i is never negative), it exits after as many iterations
\* as flux had entries on entry (one per body line), and while wav is at
\* least as long as flux no deletion is out of range.
C15_LoopTerminates ==
    /\ [](pc = "loop" =>
            /\ 0 <= i /\ i <= ln
            /\ ln = Len(flux) /\ ln = Len(flux_std_dev)
            /\ (iter = 0 => ln = HighBodyCount)
            /\ ENABLED (LoopStep \/ LoopExit))
    /\ [][(pc = "loop" /\ pc' = "loop") =>
            (iter' = iter + 1 /\ ln' - i' = ln - i - 1)]_vars
    /\ [][(pc = "loop" /\ Len(wav) >= Len(flux)) =>
            (outcome' # "IndexError" /\ Len(wav') >= Len(flux'))]_vars
    /\ []((pc = "return" /\ layout = "High") => iter = HighBodyCount)

\* Three iterations, two of them deletions.
C15_Witness ==
    /\ pc = "return" /\ layout = "High"
    /\ iter = 3 /\ i = 1 /\ ln = 1
    /\ Len(wav) >= 1

\* C16 (as stated): a HighDispersion decode that returns has
\* len(wav) - len(flux) = (k_max+1) - n, with k_max read from the header and
\* n the number of body lines.  (The variable k_max holds the header's + 1.)
C16_LengthDifference ==
    (Returned /\ layout = "High") => Len(wav) - Len(flux) = k_max - HighBodyCount

WavEntries == IF k_max > 0 THEN k_max ELSE 0

\* C16 (amended): wav is built with max(k_max+1, 0) entries whatever n is,
\* compaction removes as many entries from wav as from flux and
\* flux_std_dev, a decode that returns has
\* len(wav) - len(flux) = max(k_max+1, 0) - n (equal lengths exactly when
\* they agree), and a bad value met at an index wav no longer has ends the
\* decode in IndexError.
C16_LengthsAndFault ==
    /\ [](pc = "loopinit" => Len(wav) = WavEntries)
    /\ []((pc \in {"loop", "return"} /\ layout = "High") =>
            /\ Len(flux) = Len(flux_std_dev)
            /\ Len(wav) - Len(flux) = WavEntries - HighBodyCount)
    /\ []((Returned /\ layout = "High") =>
            /\ Len(wav) - Len(flux) = WavEntries - HighBodyCount
            /\ (Len(wav) = Len(flux)) <=> (HighBodyCount = WavEntries))
    /\ [][(pc = "loop" /\ i < ln /\ i < Len(flux) /\ i >= Len(wav)
             /\ flux[i + 1] = BadValue) =>
            (pc' = "done" /\ outcome' = "IndexError")]_vars

\* More body lines than wavelengths, one bad value removed, and a return.
C16_Witness ==
    /\ Returned /\ layout = "High"
    /\ HighBodyCount > k_max
    /\ Len(flux) < HighBodyCount
    /\ Len(wav) < Len(flux)

====
